---- MODULE Spec2Model ----
(***************************************************************************)
(* Model of the YAML configuration generator: ICLAgent (src/icl_agent.py)  *)
(* and the sanitizer/parser pair it shares with StreamlitICLAgent           *)
(* (src/app.py).                                                            *)
(*                                                                          *)
(* Text is a sequence of lexemes.  A lexeme is one punctuation character    *)
(* (backtick, "#", ":", " ", tab, newline), the document start marker       *)
(* "---", or a whole word.  The words "yaml" and "YAML" consist only of     *)
(* characters of the class [yamlYAML]; every other word holds a character  *)
(* outside it.  The backtick is written "BACKTICK".                         *)
(***************************************************************************)
EXTENDS Integers, Sequences, FiniteSets, TLC

VARIABLES
    \* ---- the agent (ICLAgent) and its environment
    pc,          \* "new" before __init__ has run, "ready" after
    docExists,   \* whether doc_path exists on disk
    knowledge,   \* self.knowledge
    files,       \* the output directory: set of [path, content]
    now,         \* the wall clock, in ticks
    ops,         \* number of process_request / update_configuration calls made
    last,        \* what the last operation did and handed to its caller
    \* ---- the sanitize/parse pipeline on one raw model output
    stage,       \* "off" | "raw" | "cleaned" | "parsed"
    raw,         \* response.text
    cleaned,     \* _clean_response(raw)
    parsed       \* outcome of _parse_yaml_safely(cleaned)

vars == <<pc, docExists, knowledge, files, now, ops, last, stage, raw, cleaned, parsed>>

agentVars == <<pc, docExists, knowledge, files, now, ops, last>>
pipeVars == <<stage, raw, cleaned, parsed>>

----------------------------------------------------------------------------
(* Bounds *)

MaxLen == 5
MaxLines == 3
MaxOps == 2
MaxClock == 3
TicksPerSecond == 2

----------------------------------------------------------------------------
(* Lexemes *)

BT == "BACKTICK"
NL == "\n"
TAB == "\t"
SP == " "
HASH == "#"
COLON == ":"
DOCSEP == "---"

TagClassWords == {"yaml", "YAML"}
Whitespace == {SP, TAB, NL}
Punctuation == {BT, NL, TAB, SP, HASH, COLON, DOCSEP}

IsWord(x) == x \notin Punctuation


----------------------------------------------------------------------------
(* _clean_response *)

IsFenceAt(text, i) ==
    /\ i + 2 <= Len(text)
    /\ text[i] = BT /\ text[i + 1] = BT /\ text[i + 2] = BT

RECURSIVE SkipTagClass(_, _)
SkipTagClass(text, j) ==
    IF j <= Len(text) /\ text[j] \in TagClassWords
    THEN SkipTagClass(text, j + 1)
    ELSE j

\* Where a match of the opening-fence pattern starting at i ends, or 0.
OpeningFenceEnd(text, i) ==
    IF IsFenceAt(text, i)
    THEN LET j == SkipTagClass(text, i + 3)
         IN  IF j <= Len(text) /\ text[j] = NL THEN j ELSE 0
    ELSE 0

RECURSIVE SubOpeningFenceFrom(_, _)
SubOpeningFenceFrom(text, i) ==
    IF i > Len(text) THEN <<>>
    ELSE LET e == OpeningFenceEnd(text, i)
         IN  IF e > 0
             THEN SubOpeningFenceFrom(text, e + 1)
             ELSE <<text[i]>> \o SubOpeningFenceFrom(text, i + 1)

\* re.sub(<three backticks>[yamlYAML]*\n, '', text)
SubOpeningFence(text) == SubOpeningFenceFrom(text, 1)

RECURSIVE ReplaceFenceFrom(_, _)
ReplaceFenceFrom(text, i) ==
    IF i > Len(text) THEN <<>>
    ELSE IF IsFenceAt(text, i)
         THEN ReplaceFenceFrom(text, i + 3)
         ELSE <<text[i]>> \o ReplaceFenceFrom(text, i + 1)

\* text.replace(<three backticks>, '')
ReplaceFence(text) == ReplaceFenceFrom(text, 1)

RECURSIVE SubCommentFrom(_, _, _)
SubCommentFrom(text, i, inComment) ==
    IF i > Len(text) THEN <<>>
    ELSE IF text[i] = NL
         THEN <<NL>> \o SubCommentFrom(text, i + 1, FALSE)
         ELSE IF inComment \/ text[i] = HASH
              THEN SubCommentFrom(text, i + 1, TRUE)
              ELSE <<text[i]>> \o SubCommentFrom(text, i + 1, FALSE)

\* re.sub(r'#.*$', '', text, flags=re.MULTILINE)
SubComment(text) == SubCommentFrom(text, 1, FALSE)

RECURSIVE LStrip(_)
LStrip(text) ==
    IF text # <<>> /\ Head(text) \in Whitespace THEN LStrip(Tail(text)) ELSE text

RECURSIVE RStrip(_)
RStrip(text) ==
    IF text # <<>> /\ text[Len(text)] \in Whitespace
    THEN RStrip(SubSeq(text, 1, Len(text) - 1))
    ELSE text

\* str.strip()
Strip(text) == RStrip(LStrip(text))

RECURSIVE SplitFrom(_, _, _)
SplitFrom(text, i, cur) ==
    IF i > Len(text) THEN <<cur>>
    ELSE IF text[i] = NL
         THEN <<cur>> \o SplitFrom(text, i + 1, <<>>)
         ELSE SplitFrom(text, i + 1, Append(cur, text[i]))

\* str.splitlines(): no line for empty text, none after a final line break.
SplitLines(text) ==
    IF text = <<>> THEN <<>>
    ELSE IF text[Len(text)] = NL
         THEN SplitFrom(SubSeq(text, 1, Len(text) - 1), 1, <<>>)
         ELSE SplitFrom(text, 1, <<>>)

RECURSIVE ExpandTabs(_)
\* line.replace('\t', '  ')
ExpandTabs(line) ==
    IF line = <<>> THEN <<>>
    ELSE (IF Head(line) = TAB THEN <<SP, SP>> ELSE <<Head(line)>>) \o ExpandTabs(Tail(line))

RECURSIVE CleanedLines(_)
\* [line.replace('\t', '  ') for line in lines if line.strip()]
CleanedLines(lines) ==
    IF lines = <<>> THEN <<>>
    ELSE IF Strip(Head(lines)) # <<>>
         THEN <<ExpandTabs(Head(lines))>> \o CleanedLines(Tail(lines))
         ELSE CleanedLines(Tail(lines))

RECURSIVE JoinLines(_)
\* '\n'.join(lines)
JoinLines(lines) ==
    IF lines = <<>> THEN <<>>
    ELSE IF Len(lines) = 1 THEN Head(lines)
         ELSE Head(lines) \o <<NL>> \o JoinLines(Tail(lines))

\* The sanitizer with its second step left out.
CleanKeepingClosingFence(text) ==
    IF text = <<>> THEN <<>>
    ELSE JoinLines(CleanedLines(SplitLines(Strip(SubComment(SubOpeningFence(text))))))

_clean_response(text) ==
    IF text = <<>> THEN <<>>
    ELSE JoinLines(CleanedLines(SplitLines(Strip(SubComment(
             ReplaceFence(SubOpeningFence(text)))))))

----------------------------------------------------------------------------
(* Documents: what yaml.safe_load_all constructs and yaml.dump serializes *)

Null == [kind |-> "null"]
Scalar(v) == [kind |-> "scalar", value |-> v]
Mapping(ps) == [kind |-> "mapping", pairs |-> ps]
Sequence(es) == [kind |-> "sequence", elems |-> es]
Pair(k, v) == [key |-> k, value |-> v]

\* Placeholder where a call raised and produced no document.
NoDoc == [kind |-> "none"]

IsDict(d) == d.kind = "mapping"
Keys(d) == {d.pairs[i].key : i \in DOMAIN d.pairs}

\* dict[key] = value: a present key keeps its place and takes the new value.
SetItem(ps, k, v) ==
    IF \E i \in DOMAIN ps : ps[i].key = k
    THEN [i \in DOMAIN ps |-> IF ps[i].key = k THEN Pair(k, v) ELSE ps[i]]
    ELSE Append(ps, Pair(k, v))

----------------------------------------------------------------------------
(* yaml.safe_load_all on the block-style subset the model covers:          *)
(*   ---            document start marker                                   *)
(*   key: value     one entry of a block mapping                            *)
(*   word           (a line of) a plain scalar                              *)
(* and three line shapes the scanner or parser rejects.                     *)

IsSepLine(l) == l = <<DOCSEP>>
IsEntryLine(l) ==
    /\ Len(l) = 4
    /\ IsWord(l[1]) /\ l[2] = COLON /\ l[3] = SP /\ IsWord(l[4])
IsScalarLine(l) == Len(l) = 1 /\ IsWord(l[1])

\* A backtick cannot start any token; "k: v: w" puts a mapping value where
\* none is allowed; ": : :" has values without keys.
IsErrorLine(l) ==
    \/ l # <<>> /\ l[1] = BT
    \/ /\ Len(l) = 7
       /\ IsEntryLine(SubSeq(l, 1, 4))
       /\ l[5] = COLON /\ l[6] = SP /\ IsWord(l[7])
    \/ l = <<COLON, SP, COLON, SP, COLON>>

InYamlSubset(text) ==
    \A l \in {SplitLines(text)[i] : i \in DOMAIN SplitLines(text)} :
        IsSepLine(l) \/ IsEntryLine(l) \/ IsScalarLine(l) \/ IsErrorLine(l)

\* The content lines of each document: a marker opens a new document, and
\* lines before the first marker form an implicit one.
RECURSIVE DocGroups(_, _, _)
DocGroups(lines, cur, open) ==
    IF lines = <<>>
    THEN IF open \/ cur # <<>> THEN <<cur>> ELSE <<>>
    ELSE IF IsSepLine(Head(lines))
         THEN (IF open \/ cur # <<>> THEN <<cur>> ELSE <<>>)
                  \o DocGroups(Tail(lines), <<>>, TRUE)
         ELSE DocGroups(Tail(lines), Append(cur, Head(lines)), open)

GroupOk(g) ==
    \/ \A i \in DOMAIN g : IsEntryLine(g[i])
    \/ \A i \in DOMAIN g : IsScalarLine(g[i])

RECURSIVE ConstructMapping(_, _)
ConstructMapping(g, ps) ==
    IF g = <<>> THEN ps
    ELSE ConstructMapping(Tail(g), SetItem(ps, Head(g)[1], Scalar(<<Head(g)[4]>>)))

RECURSIVE FoldScalar(_)
\* A plain scalar over several lines: each line break folds to a space.
FoldScalar(g) ==
    IF Len(g) = 1 THEN Head(g)
    ELSE Head(g) \o <<SP>> \o FoldScalar(Tail(g))

ConstructDocument(g) ==
    IF g = <<>> THEN Null
    ELSE IF IsEntryLine(g[1]) THEN Mapping(ConstructMapping(g, <<>>))
         ELSE Scalar(FoldScalar(g))

\* list(yaml.safe_load_all(content)): the documents, or yaml.YAMLError.
SafeLoadAll(content) ==
    LET lines == SplitLines(content)
        groups == DocGroups(lines, <<>>, FALSE)
    IN  IF \/ \E i \in DOMAIN lines : IsErrorLine(lines[i])
           \/ \E i \in DOMAIN groups : ~GroupOk(groups[i])
        THEN [error |-> TRUE, docs |-> <<>>]
        ELSE [error |-> FALSE,
              docs |-> [i \in DOMAIN groups |-> ConstructDocument(groups[i])]]

----------------------------------------------------------------------------
(* _parse_yaml_safely *)

\* str(datetime.now()): the clock at its full resolution.
StrNow(t) == <<ToString(t)>>

ErrorDocument(t) ==
    Mapping(<<Pair("error", Scalar(<<"Failed to parse YAML">>)),
              Pair("timestamp", Scalar(StrNow(t)))>>)

Returned(v) == [raised |-> "none", value |-> v]
Raised(e) == [raised |-> e, value |-> NoDoc]

\* The parser letting yaml.YAMLError through.
ParseReraising(content, t) ==
    LET r == SafeLoadAll(content)
    IN  IF r.error THEN Raised("YAMLError")
        ELSE IF r.docs = <<>> THEN Raised("ValueError")
        ELSE IF Len(r.docs) = 1 THEN Returned(r.docs[1])
        ELSE Returned(Mapping(<<Pair("documents", Sequence(r.docs))>>))

\* The parser keeping the first document only.
ParseFirstDocumentOnly(content, t) ==
    LET r == SafeLoadAll(content)
    IN  IF r.error THEN Returned(ErrorDocument(t))
        ELSE IF r.docs = <<>> THEN Raised("ValueError")
        ELSE Returned(r.docs[1])

_parse_yaml_safely(content, t) ==
    LET r == SafeLoadAll(content)
    IN  IF r.error THEN Returned(ErrorDocument(t))
        ELSE IF r.docs = <<>> THEN Raised("ValueError")
        ELSE IF Len(r.docs) = 1 THEN Returned(r.docs[1])
        ELSE Returned(Mapping(<<Pair("documents", Sequence(r.docs))>>))

----------------------------------------------------------------------------
(* yaml.dump(data, default_flow_style=False, sort_keys=False): the lines   *)
(* of the block-style serialization, keys in insertion order.               *)

Clock == 0..MaxClock

\* A string that would resolve to another type when read back is quoted.
NeedsQuotes(v) == \E t \in Clock : v = StrNow(t)

DumpScalar(v) == IF NeedsQuotes(v) THEN <<"'">> \o v \o <<"'">> ELSE v

IsInline(d) ==
    \/ d.kind \in {"null", "scalar"}
    \/ d.kind = "mapping" /\ d.pairs = <<>>
    \/ d.kind = "sequence" /\ d.elems = <<>>

DumpInline(d) ==
    CASE d.kind = "null" -> <<"null">>
      [] d.kind = "scalar" -> DumpScalar(d.value)
      [] d.kind = "mapping" -> <<"{}">>
      [] d.kind = "sequence" -> <<"[]">>

Indent(lines) == [i \in DOMAIN lines |-> <<SP, SP>> \o lines[i]]

\* "- " before the first line of an item, two spaces before its other lines.
Dashed(lines) ==
    [i \in DOMAIN lines |-> (IF i = 1 THEN <<"-", SP>> ELSE <<SP, SP>>) \o lines[i]]

RECURSIVE DumpBlock(_)
RECURSIVE DumpPairs(_)
RECURSIVE DumpElems(_)

DumpPairs(ps) ==
    IF ps = <<>> THEN <<>>
    ELSE LET p == Head(ps)
             own == IF IsInline(p.value)
                    THEN << <<p.key, COLON, SP>> \o DumpInline(p.value) >>
                    ELSE IF p.value.kind = "mapping"
                         THEN << <<p.key, COLON>> >> \o Indent(DumpBlock(p.value))
                         ELSE << <<p.key, COLON>> >> \o DumpBlock(p.value)
         IN  own \o DumpPairs(Tail(ps))

DumpElems(es) ==
    IF es = <<>> THEN <<>>
    ELSE Dashed(DumpBlock(Head(es))) \o DumpElems(Tail(es))

DumpBlock(d) ==
    IF IsInline(d) THEN <<DumpInline(d)>>
    ELSE IF d.kind = "mapping" THEN DumpPairs(d.pairs) ELSE DumpElems(d.elems)

\* A document that is a bare scalar ends with the document end marker.
Dump(d) ==
    IF d.kind \in {"null", "scalar"}
    THEN <<DumpInline(d), <<"...">>>>
    ELSE DumpBlock(d)

----------------------------------------------------------------------------
(* _save_yaml *)

OutputDir == "configs"
NoPath == [dir |-> "", prefix |-> "", stamp |-> -1, ext |-> ""]

\* datetime.now().strftime("%Y%m%d_%H%M%S"): the clock cut to whole seconds.
Strftime(t) == t \div TicksPerSecond

Paths(fs) == {f.path : f \in fs}
ContentAt(fs, p) == (CHOOSE f \in fs : f.path = p).content

\* open(filepath, 'w') and the dump: the file is created, or replaced.
WriteFile(fs, p, c) == {f \in fs : f.path # p} \cup {[path |-> p, content |-> c]}

\* The saver ignoring the name it is given.
SaveIgnoringName(fs, data, name, t, diskOk) ==
    LET filepath == [dir |-> OutputDir, prefix |-> "config",
                     stamp |-> Strftime(t), ext |-> "yaml"]
    IN  IF diskOk
        THEN [raised |-> "none", filepath |-> filepath,
              files |-> WriteFile(fs, filepath, Dump(data))]
        ELSE [raised |-> "OSError", filepath |-> NoPath, files |-> fs]

_save_yaml(fs, data, name, t, diskOk) ==
    LET filepath == [dir |-> OutputDir,
                     prefix |-> IF name # "" THEN name ELSE "config",
                     stamp |-> Strftime(t), ext |-> "yaml"]
    IN  IF diskOk
        THEN [raised |-> "none", filepath |-> filepath,
              files |-> WriteFile(fs, filepath, Dump(data))]
        ELSE [raised |-> "OSError", filepath |-> NoPath, files |-> fs]

----------------------------------------------------------------------------
(* The remote model: model.generate_content(...) raises, or answers text *)

Failure == [ok |-> FALSE, text |-> <<>>]
Answer(text) == [ok |-> TRUE, text |-> text]

RespEmpty == <<>>
RespFenceOnly == <<BT, BT, BT, "yaml", NL, BT, BT, BT>>
RespCommentOnly == <<HASH, SP, "nothing">>
RespSingle ==
    <<BT, BT, BT, "yaml", NL, "component", COLON, SP, "webapp", NL, BT, BT, BT>>
RespMulti ==
    <<"component", COLON, SP, "webapp", NL, DOCSEP, NL,
      "replicas", COLON, SP, "auto">>
RespUnparsable == <<COLON, SP, COLON, SP, COLON>>
RespProse == <<"sorry">>
RespKnowledge ==
    <<"schema", COLON, SP, "components", NL,
      "rules", COLON, SP, "validation", NL,
      "practices", COLON, SP, "deployment", NL,
      "patterns", COLON, SP, "common">>

Responses ==
    {RespEmpty, RespFenceOnly, RespCommentOnly, RespSingle, RespMulti,
     RespUnparsable, RespProse, RespKnowledge}

RemoteOutcomes == {Failure} \cup {Answer(r) : r \in Responses}

----------------------------------------------------------------------------
(* _load_knowledge *)

SectionKeys == {"schema", "rules", "practices", "patterns"}

DefaultKnowledge ==
    Mapping(<<
        Pair("schema", Mapping(<<Pair("components", Sequence(<<>>)),
                                 Pair("parameters", Sequence(<<>>))>>)),
        Pair("rules", Mapping(<<Pair("validation", Sequence(<<>>)),
                                Pair("security", Sequence(<<>>))>>)),
        Pair("practices", Mapping(<<Pair("deployment", Sequence(<<>>)),
                                    Pair("configuration", Sequence(<<>>))>>)),
        Pair("patterns", Mapping(<<Pair("common", Sequence(<<>>)),
                                   Pair("recommended", Sequence(<<>>))>>))>>)

Loaded(k, n) == [knowledge |-> k, calls |-> n]

\* The load with the existence check placed after the extraction call.
LoadCheckingPathLate(exists, pdfOk, remote, t) ==
    IF ~pdfOk THEN Loaded(DefaultKnowledge, 0)
    ELSE IF ~remote.ok THEN Loaded(DefaultKnowledge, 1)
    ELSE IF ~exists THEN Loaded(DefaultKnowledge, 1)
    ELSE LET k == _parse_yaml_safely(_clean_response(remote.text), t)
         IN  IF k.raised # "none" THEN Loaded(DefaultKnowledge, 1)
             ELSE IF ~IsDict(k.value) \/ k.value.pairs = <<>>
                  THEN Loaded(DefaultKnowledge, 1)
                  ELSE Loaded(k.value, 1)

\* Every exception inside the try ends in the default knowledge.
_load_knowledge(exists, pdfOk, remote, t) ==
    IF ~exists THEN Loaded(DefaultKnowledge, 0)
    ELSE IF ~pdfOk THEN Loaded(DefaultKnowledge, 0)
    ELSE IF ~remote.ok THEN Loaded(DefaultKnowledge, 1)
    ELSE LET k == _parse_yaml_safely(_clean_response(remote.text), t)
         IN  IF k.raised # "none" THEN Loaded(DefaultKnowledge, 1)
             ELSE IF ~IsDict(k.value) \/ k.value.pairs = <<>>
                  THEN Loaded(DefaultKnowledge, 1)
                  ELSE Loaded(k.value, 1)

----------------------------------------------------------------------------
(* process_request, update_configuration *)

Outcome(e, d, p, fs) == [raised |-> e, doc |-> d, path |-> p, files |-> fs]

\* The interactive variant's handler: an exception becomes a document.
ProcessRequestMasking(fs, remote, t, diskOk) ==
    IF ~remote.ok
    THEN Outcome("none", Mapping(<<Pair("error", Scalar(<<"TransportError">>))>>),
                 NoPath, fs)
    ELSE LET config == _parse_yaml_safely(_clean_response(remote.text), t)
         IN  IF config.raised # "none"
             THEN Outcome(config.raised, NoDoc, NoPath, fs)
             ELSE LET s == _save_yaml(fs, config.value, "icl_config", t, diskOk)
                  IN  IF s.raised # "none"
                      THEN Outcome(s.raised, NoDoc, NoPath, fs)
                      ELSE Outcome("none", config.value, s.filepath, s.files)

process_request(fs, remote, t, diskOk) ==
    IF ~remote.ok
    THEN Outcome("TransportError", NoDoc, NoPath, fs)
    ELSE LET config == _parse_yaml_safely(_clean_response(remote.text), t)
         IN  IF config.raised # "none"
             THEN Outcome(config.raised, NoDoc, NoPath, fs)
             ELSE LET s == _save_yaml(fs, config.value, "icl_config", t, diskOk)
                  IN  IF s.raised # "none"
                      THEN Outcome(s.raised, NoDoc, NoPath, fs)
                      ELSE Outcome("none", config.value, s.filepath, s.files)

update_configuration(fs, remote, t, diskOk) ==
    IF ~remote.ok
    THEN Outcome("TransportError", NoDoc, NoPath, fs)
    ELSE LET updated_config == _parse_yaml_safely(_clean_response(remote.text), t)
         IN  IF updated_config.raised # "none"
             THEN Outcome(updated_config.raised, NoDoc, NoPath, fs)
             ELSE LET s == _save_yaml(fs, updated_config.value,
                                      "icl_config_updated", t, diskOk)
                  IN  IF s.raised # "none"
                      THEN Outcome(s.raised, NoDoc, NoPath, fs)
                      ELSE Outcome("none", updated_config.value, s.filepath,
                                   s.files)

----------------------------------------------------------------------------
(* The agent: construction, then requests and updates as the clock runs *)

NoResult == [raised |-> "none", value |-> NoDoc]

NoLast ==
    [op |-> "none", pdfOk |-> TRUE, remoteOk |-> TRUE, text |-> <<>>, at |-> 0,
     raised |-> "none", doc |-> NoDoc, path |-> NoPath, calls |-> 0]

Init ==
    /\ pc = "new"
    /\ docExists \in BOOLEAN
    /\ knowledge = Mapping(<<>>)
    /\ files = {}
    /\ now = 0
    /\ ops = 0
    /\ last = NoLast
    /\ stage = "off"
    /\ raw = <<>>
    /\ cleaned = <<>>
    /\ parsed = NoResult

\* ICLAgent.__init__: the knowledge is loaded once; nothing is raised.
Construct ==
    /\ pc = "new"
    /\ \E pdfOk \in BOOLEAN, remote \in RemoteOutcomes :
         LET r == _load_knowledge(docExists, pdfOk, remote, now)
         IN  /\ knowledge' = r.knowledge
             /\ last' = [NoLast EXCEPT !.op = "__init__", !.pdfOk = pdfOk,
                                       !.remoteOk = remote.ok, !.text = remote.text,
                                       !.at = now, !.calls = r.calls]
    /\ pc' = "ready"
    /\ now' = now + 1
    /\ UNCHANGED <<docExists, files, ops, pipeVars>>

Called(op, remote, t, r) ==
    [NoLast EXCEPT !.op = op, !.remoteOk = remote.ok, !.text = remote.text,
                   !.at = t, !.raised = r.raised, !.doc = r.doc, !.path = r.path,
                   !.calls = 1]

ProcessRequest ==
    /\ pc = "ready"
    /\ ops < MaxOps
    /\ now <= MaxClock
    /\ \E remote \in RemoteOutcomes, diskOk \in BOOLEAN :
         LET r == process_request(files, remote, now, diskOk)
         IN  /\ files' = r.files
             /\ last' = Called("process_request", remote, now, r)
    /\ ops' = ops + 1
    /\ now' = now + 1
    /\ UNCHANGED <<pc, docExists, knowledge, pipeVars>>

UpdateConfiguration ==
    /\ pc = "ready"
    /\ ops < MaxOps
    /\ now <= MaxClock
    /\ \E remote \in RemoteOutcomes, diskOk \in BOOLEAN :
         LET r == update_configuration(files, remote, now, diskOk)
         IN  /\ files' = r.files
             /\ last' = Called("update_configuration", remote, now, r)
    /\ ops' = ops + 1
    /\ now' = now + 1
    /\ UNCHANGED <<pc, docExists, knowledge, pipeVars>>

\* Time passes between calls.
Tick ==
    /\ pc = "ready"
    /\ now < MaxClock
    /\ now' = now + 1
    /\ UNCHANGED <<pc, docExists, knowledge, files, ops, last, pipeVars>>

Next == Construct \/ ProcessRequest \/ UpdateConfiguration \/ Tick

Spec == Init /\ [][Next]_vars

----------------------------------------------------------------------------
(* The sanitizer and the parser on their own, over bounded inputs *)

FreeAlphabet == {BT, "yaml", NL, HASH, TAB, SP, "k"}
FreeTexts == UNION {[1..n -> FreeAlphabet] : n \in 0..MaxLen}

LineShapes ==
    {<<DOCSEP>>,
     <<"k", COLON, SP, "v">>,
     <<"k", COLON, SP, "w">>,
     <<"j", COLON, SP, "v">>,
     <<"k">>,
     <<BT, BT>>,
     <<COLON, SP, COLON, SP, COLON>>}

Bodies == {JoinLines(ls) : ls \in UNION {[1..n -> LineShapes] : n \in 0..MaxLines}}

Fenced(body) == <<BT, BT, BT, "yaml", NL>> \o body \o <<NL, BT, BT, BT>>
Commented(body) == <<HASH, SP, "k", NL, TAB, NL>> \o body \o <<SP, HASH, BT, BT, BT>>

\* Removing the opening fence joins the backticks around it into a new fence.
Nested(body) == <<BT, BT, BT, BT, "yaml", NL, BT, BT>> \o body

StructuredTexts ==
    Bodies \cup {Fenced(b) : b \in Bodies} \cup {Commented(b) : b \in Bodies}
           \cup {Nested(b) : b \in Bodies}

RawTexts == FreeTexts \cup StructuredTexts

PipeInit ==
    /\ stage = "raw"
    /\ raw \in RawTexts
    /\ cleaned = <<>>
    /\ parsed = NoResult
    /\ pc = "off"
    /\ docExists = FALSE
    /\ knowledge = Mapping(<<>>)
    /\ files = {}
    /\ now \in {0, MaxClock}
    /\ ops = 0
    /\ last = NoLast

CleanResponse ==
    /\ stage = "raw"
    /\ cleaned' = _clean_response(raw)
    /\ stage' = "cleaned"
    /\ UNCHANGED <<raw, parsed, agentVars>>

ParseYamlSafely ==
    /\ stage = "cleaned"
    /\ InYamlSubset(cleaned)
    /\ parsed' = _parse_yaml_safely(cleaned, now)
    /\ stage' = "parsed"
    /\ UNCHANGED <<raw, cleaned, agentVars>>

PipeNext == CleanResponse \/ ParseYamlSafely

PipeSpec == PipeInit /\ [][PipeNext]_vars

----------------------------------------------------------------------------
(* Properties *)

IsCall(op) == op \in {"process_request", "update_configuration"}

HasFence(text) == \E i \in 1..Len(text) : IsFenceAt(text, i)

ParseOf(text) == SafeLoadAll(_clean_response(text))

ZeroDocuments(text) == ~ParseOf(text).error /\ ParseOf(text).docs = <<>>

IsErrorDocument(d) == d.kind = "mapping" /\ "error" \in Keys(d)

\* C1: when the sanitized model output holds zero documents, process_request
\* and update_configuration return an ErrorDocument; they do not raise.
C1_EmptyContentBecomesErrorDocument ==
    (IsCall(last.op) /\ last.remoteOk /\ ZeroDocuments(last.text))
        => (last.raised = "none" /\ IsErrorDocument(last.doc))

\* C2: for every sanitized text that fails structural parsing,
\* _parse_yaml_safely does not raise and returns a document with exactly the
\* two keys error and timestamp, error being "Failed to parse YAML".
C2_ParseErrorBecomesErrorDocument ==
    (stage = "parsed" /\ SafeLoadAll(cleaned).error)
        => /\ parsed.raised = "none"
           /\ parsed.value.kind = "mapping"
           /\ Len(parsed.value.pairs) = 2
           /\ Keys(parsed.value) = {"error", "timestamp"}
           /\ \E i \in 1..2 :
                parsed.value.pairs[i] = Pair("error", Scalar(<<"Failed to parse YAML">>))

C2_Witness ==
    /\ stage = "parsed"
    /\ SafeLoadAll(cleaned).error
    /\ HasFence(raw)
    /\ Len(SplitLines(cleaned)) >= 2

\* A step of the knowledge load failed: the path is missing, text extraction
\* or the remote call failed, the response did not parse, or what it parsed
\* to is not a non-empty mapping.
LoadStepFailed ==
    \/ ~docExists
    \/ ~last.pdfOk
    \/ ~last.remoteOk
    \/ ParseOf(last.text).error
    \/ ParseOf(last.text).docs = <<>>
    \/ /\ Len(ParseOf(last.text).docs) = 1
       /\ ParseOf(last.text).docs[1].kind # "mapping"

\* C3: if any step of knowledge loading fails during construction, the
\* agent's knowledge afterwards is the static default KnowledgeBase, also
\* when the extraction response fails to parse.
C3_FailedLoadFallsBackToDefault ==
    (pc = "ready" /\ last.op = "__init__" /\ LoadStepFailed)
        => knowledge = DefaultKnowledge

\* C4: in every state after construction the knowledge mapping contains the
\* four top-level keys schema, rules, practices and patterns.
C4_KnowledgeHasFourSections ==
    pc = "ready" => (IsDict(knowledge) /\ SectionKeys \subseteq Keys(knowledge))

AllListsEmpty(k) ==
    /\ IsDict(k)
    /\ Keys(k) = SectionKeys
    /\ \A i \in DOMAIN k.pairs :
         /\ IsDict(k.pairs[i].value)
         /\ k.pairs[i].value.pairs # <<>>
         /\ \A j \in DOMAIN k.pairs[i].value.pairs :
              k.pairs[i].value.pairs[j].value = Sequence(<<>>)

\* C5: when the reference-document path does not exist, the load makes no
\* remote call, construction completes without raising, and the knowledge is
\* the four-section default with all lists empty.
C5_MissingDocumentLoadsDefaultWithoutRemoteCall ==
    (last.op = "__init__" /\ ~docExists)
        => /\ pc = "ready"
           /\ last.calls = 0
           /\ last.raised = "none"
           /\ AllListsEmpty(knowledge)

C5_Witness ==
    /\ last.op = "__init__"
    /\ ~docExists
    /\ last.pdfOk
    /\ last.remoteOk
    /\ last.text = RespKnowledge

\* C6: a remote generation failure in process_request or
\* update_configuration is re-raised to the caller, no document is returned
\* in its place, and the call leaves the output directory as it was.
C6_TransportErrorIsReraisedAndNothingSaved ==
    [][(ops' = ops + 1 /\ ~last'.remoteOk)
          => /\ last'.raised = "TransportError"
             /\ last'.doc = NoDoc
             /\ last'.path = NoPath
             /\ files' = files]_vars

C6_Witness ==
    /\ IsCall(last.op)
    /\ ~last.remoteOk
    /\ last.raised = "TransportError"
    /\ files # {}

\* C7: every successful process_request / update_configuration call writes a
\* path that no earlier call wrote, so the directory gains one file per call,
\* also for calls within the same clock second.
C7_PersistedFilesAreWriteOnce ==
    [][(ops' = ops + 1 /\ last'.raised = "none")
          => /\ last'.path \notin Paths(files)
             /\ Cardinality(files') = Cardinality(files) + 1]_vars

ExpectedPath(op, t) ==
    [dir |-> OutputDir,
     prefix |-> IF op = "process_request" THEN "icl_config" ELSE "icl_config_updated",
     stamp |-> Strftime(t),
     ext |-> "yaml"]

\* C8: a call that returns normally has written one file, named
\* icl_config_<timestamp>.yaml (icl_config_updated_<timestamp>.yaml for an
\* update), holding the serialization of exactly the document it returns, and
\* returns that file's path; also when the document is an ErrorDocument.
C8_ReturnedDocumentIsPersisted ==
    [][(ops' = ops + 1 /\ last'.raised = "none")
          => /\ last'.path = ExpectedPath(last'.op, last'.at)
             /\ last'.doc # NoDoc
             /\ files' = {f \in files : f.path # last'.path}
                            \cup {[path |-> last'.path, content |-> Dump(last'.doc)]}]_vars

C8_Witness ==
    /\ IsCall(last.op)
    /\ last.raised = "none"
    /\ ParseOf(last.text).error
    /\ last.doc = ErrorDocument(last.at)
    /\ \E f \in files : f.path = last.path /\ f.content = Dump(ErrorDocument(last.at))

\* C9: for a text that parses into a non-empty sequence of documents,
\* _parse_yaml_safely returns the document itself when there is exactly one,
\* and the mapping with the single key documents, holding the whole sequence
\* in its original order, when there are two or more.
C9_SingleUnwrappedManyUnderDocuments ==
    (stage = "parsed" /\ ~SafeLoadAll(cleaned).error /\ SafeLoadAll(cleaned).docs # <<>>)
        => LET docs == SafeLoadAll(cleaned).docs
           IN  /\ parsed.raised = "none"
               /\ IF Len(docs) = 1
                  THEN parsed.value = docs[1]
                  ELSE /\ parsed.value.kind = "mapping"
                       /\ Len(parsed.value.pairs) = 1
                       /\ parsed.value.pairs[1].key = "documents"
                       /\ parsed.value.pairs[1].value.kind = "sequence"
                       /\ parsed.value.pairs[1].value.elems = docs

C9_Witness ==
    /\ stage = "parsed"
    /\ ~SafeLoadAll(cleaned).error
    /\ Len(SafeLoadAll(cleaned).docs) >= 2
    /\ SafeLoadAll(cleaned).docs[1] # SafeLoadAll(cleaned).docs[2]
    /\ parsed.value.pairs[1].value.elems[2].kind = "mapping"

\* C10: for every raw model output, the text _clean_response returns holds
\* no three consecutive backticks.
C10_NoResidualFence ==
    stage \in {"cleaned", "parsed"} => ~HasFence(cleaned)

C10_Witness ==
    /\ stage = "cleaned"
    /\ Len(raw) >= 8
    /\ SubSeq(raw, 1, 8) = Nested(<<>>)
    /\ IsFenceAt(SubOpeningFence(raw), 1)
    /\ \E i \in DOMAIN cleaned : cleaned[i] = BT

====
